---- MODULE Spec2Model ----
(***************************************************************************)
(* Model of the bias-extension test object (class BiasTest): construction  *)
(* with its validation, the kinematic angle mapping, the two shear-torque  *)
(* solvers, the shear-force derivation and the lazily computing plot       *)
(* methods.                                                                *)
(*                                                                         *)
(* Numbers.  The program computes in binary64.  Here a float is a record   *)
(* [kind, v]: kind "num" holds the value v / Scale (fixed point, rounded   *)
(* towards zero after every operation), kind "nan" is NaN.  Angles are     *)
(* held in degrees instead of radians (pi/2 is 90), on a grid of           *)
(* GridStep degrees; arccos rounds to the nearest grid angle and sin/cos   *)
(* read a table on that grid.  Source index i of an array is index i + 1   *)
(* of the sequence that models it; At(s, i) reads source index i.          *)
(***************************************************************************)
EXTENDS Integers, Sequences, FiniteSets, TLC

VARIABLES
    status,     \* "new": no constructor call yet; "constructed"; "failed"
    args,       \* the geometry arguments of the constructor call
    self,       \* the fields of the object (NoObject until constructed)
    err,        \* the exception the last call raised, "none" if it returned
    lastCall,   \* the name of the method the caller invoked last
    ran         \* the solvers run during the last call, in order

vars == <<status, args, self, err, lastCall, ran>>

----------------------------------------------------------------------------
(* Bounds of the model *)

\* the longest displacement / force array the caller passes
MaxN == 3

----------------------------------------------------------------------------
(* binary64 arithmetic in fixed point *)

\* one unit of a "num" is 1 / Scale
Scale == 1000

Num(x) == [kind |-> "num", v |-> x]
NaN == [kind |-> "nan", v |-> 0]

\* float(k) of a Python int
Float(k) == Num(k * Scale)

IsNaN(a) == a.kind = "nan"

Abs(x) == IF x < 0 THEN -x ELSE x

\* integer quotient rounded towards zero
TruncDiv(x, y) ==
    IF (x < 0) = (y < 0) THEN Abs(x) \div Abs(y) ELSE -(Abs(x) \div Abs(y))

Add(a, b) == IF IsNaN(a) \/ IsNaN(b) THEN NaN ELSE Num(a.v + b.v)
Sub(a, b) == IF IsNaN(a) \/ IsNaN(b) THEN NaN ELSE Num(a.v - b.v)
Mul(a, b) == IF IsNaN(a) \/ IsNaN(b) THEN NaN ELSE Num(TruncDiv(a.v * b.v, Scale))
\* a / b of two floats; 0/0 is NaN (no reachable call divides a nonzero by zero)
Div(a, b) ==
    IF IsNaN(a) \/ IsNaN(b) \/ b.v = 0 THEN NaN
    ELSE Num(TruncDiv(a.v * Scale, b.v))

\* comparisons of floats: every comparison with NaN is false
Lt(a, b) == ~IsNaN(a) /\ ~IsNaN(b) /\ a.v < b.v
Gt(a, b) == ~IsNaN(a) /\ ~IsNaN(b) /\ a.v > b.v
Ge(a, b) == ~IsNaN(a) /\ ~IsNaN(b) /\ a.v >= b.v
Eq(a, b) == ~IsNaN(a) /\ ~IsNaN(b) /\ a.v = b.v

\* source index i of the array modelled by sequence s
At(s, i) == s[i + 1]

\* np.zeros(n)
zeros(n) == [k \in 1..n |-> Num(0)]

----------------------------------------------------------------------------
(* Trigonometry on the angle grid (degrees) *)

GridStep == 15

\* sin of the first-quadrant grid angles, times Scale
SinTable(d) ==
    CASE d = 0 -> 0
      [] d = 15 -> 259
      [] d = 30 -> 500
      [] d = 45 -> 707
      [] d = 60 -> 866
      [] d = 75 -> 966
      [] d = 90 -> 1000

\* sin of a grid angle d (degrees, -180..180).  sin(0.0) is exactly 0; at
\* 180 degrees binary64 gives a tiny nonzero value (1.2e-16), held here as
\* the smallest positive fixed-point value.
SinDeg(d) ==
    LET a == Abs(d)
        s == IF a <= 90 THEN SinTable(a)
             ELSE IF a = 180 THEN 1
             ELSE SinTable(180 - a)
    IN IF d < 0 THEN -s ELSE s

\* cos of a grid angle d (degrees, -270..270).  binary64 cos(pi/2) is
\* 6.1e-17, not 0, and cos(3 pi/2) is -1.8e-16: the zero crossings hold the
\* smallest fixed-point value of that sign.
CosDeg(d) ==
    LET a == Abs(d)
    IN IF a < 90 THEN SinTable(90 - a)
       ELSE IF a = 90 THEN 1
       ELSE IF a <= 180 THEN -SinTable(a - 90)
       ELSE IF a = 270 THEN -1
       ELSE -SinTable(270 - a)

\* np.sin / np.cos of an angle held in degrees
sin(a) == IF IsNaN(a) THEN NaN ELSE Num(SinDeg(TruncDiv(a.v, Scale)))
cos(a) == IF IsNaN(a) THEN NaN ELSE Num(CosDeg(TruncDiv(a.v, Scale)))

\* the grid angles arccos can return: 0..180 degrees
ArcGrid == {GridStep * k : k \in 0..12}

\* np.arccos: NaN outside [-1, 1], else the grid angle whose cosine is
\* nearest (the smaller angle on a tie)
arccos(x) ==
    IF IsNaN(x) \/ x.v > Scale \/ x.v < -Scale THEN NaN
    ELSE LET dist(g) == Abs((IF g = 90 THEN 0 ELSE CosDeg(g)) - x.v)
             best == CHOOSE g \in ArcGrid :
                        \A h \in ArcGrid :
                            dist(g) < dist(h) \/ (dist(g) = dist(h) /\ g <= h)
         IN Float(best)

\* np.sqrt(2.0)
Sqrt2 == Num(1414)

\* np.pi / 2, in degrees
HalfPi == Float(90)

----------------------------------------------------------------------------
(* The values the caller passes *)

\* <<width, length, thickness>> arguments (Python ints)
Geometries ==
    { <<2, 4, 1>>,      \* ratio 2.0
      <<2, 6, 1>>,      \* ratio 3.0
      <<2, 3, 1>>,      \* ratio 1.5
      <<2, 4, 0>>,      \* ratio 2.0, zero thickness
      <<2, 3, -1>>,     \* ratio 1.5, negative thickness
      <<-2, -4, 1>>,    \* width and length negative, ratio 2.0
      <<-2, -3, 1>>,    \* width and length negative, ratio 1.5
      <<-2, 4, 1>>,     \* negative width
      <<2, -4, 1>>,     \* negative length
      <<2, 0, 1>>,      \* zero length
      <<0, 4, 1>> }     \* zero width

\* displacement samples (mm) and force samples (N)
Displacements == {Num(0), Num(828), Num(1650)}
Forces == {Float(0), Float(10)}

SeqsUpTo(S, n) == UNION {[1..k -> S] : k \in 0..n}

----------------------------------------------------------------------------
(* The object *)

NoObject == [exists |-> FALSE]

\* what a call yields: the object after it, and the exception it raised
Outcome(o, e, r) == [self |-> o, raised |-> e, ran |-> r]

\* the ratio check with the threshold 1.0 in place of 2.0
RatioTooSmallAt1(length, width) ==
    IF width > 0 THEN length < width ELSE length > width

\* length / width < 2.0, for width # 0 (true division of Python numbers)
RatioTooSmall(length, width) ==
    IF width > 0 THEN length < 2 * width ELSE length > 2 * width

\* 2 * np.arccos((displacement + diagonal_pf) / (2.0 * length_side_pf)),
\* elementwise
calculate_inter_fibre_angle(displacement, diagonal_pf, length_side_pf) ==
    [k \in 1..Len(displacement) |->
        Mul(Float(2),
            arccos(Div(Add(displacement[k], diagonal_pf),
                       Mul(Float(2), length_side_pf))))]

\* np.pi / 2 - inter_fiber_angle, elementwise
calculate_shear_angle(inter_fiber_angle) ==
    [k \in 1..Len(inter_fiber_angle) |-> Sub(HalfPi, inter_fiber_angle[k])]

\* BiasTest.__init__
init(displacement, force, width, length, thickness) ==
    IF Len(displacement) # Len(force) THEN Outcome(NoObject, "ValueError", <<>>)
    ELSE IF width = 0 THEN Outcome(NoObject, "ZeroDivisionError", <<>>)
    ELSE IF RatioTooSmall(length, width) THEN Outcome(NoObject, "ValueError", <<>>)
    ELSE
      LET semi_sheared_area == Float(width * width)
          sheared_area == Sub(Float(width * length),
                              Mul(Num(1500), semi_sheared_area))
          diagonal_pf == Float(length - width)
          length_side_pf == Div(diagonal_pf, Sqrt2)
          inter_fiber_angle ==
              calculate_inter_fibre_angle(displacement, diagonal_pf, length_side_pf)
      IN Outcome(
           [exists |-> TRUE,
            displacement |-> displacement,
            force |-> force,
            number_mesures |-> Len(displacement),
            width |-> Float(width),
            length |-> Float(length),
            thickness |-> Float(thickness),
            semi_sheared_area |-> semi_sheared_area,
            sheared_area |-> sheared_area,
            diagonal_pf |-> diagonal_pf,
            length_side_pf |-> length_side_pf,
            inter_fiber_angle |-> inter_fiber_angle,
            shear_angle |-> calculate_shear_angle(inter_fiber_angle),
            shear_torque |-> zeros(Len(displacement)),
            shear_torque_computed |-> FALSE,
            shear_force |-> zeros(Len(displacement)),
            shear_force_computed |-> FALSE],
           "none", <<>>)

----------------------------------------------------------------------------
(* np.interp(x, xp, fp) for a scalar x, as numpy computes it *)

\* the linear scan numpy uses for tables of at most 4 points:
\* for (i = 1; i < len && key >= arr[i]; ++i); return i - 1;
RECURSIVE linear_search(_, _, _, _)
linear_search(key, arr, len, i) ==
    IF i < len /\ Ge(key, At(arr, i)) THEN linear_search(key, arr, len, i + 1)
    ELSE i - 1

\* while (imin < imax) { imid = imin + ((imax - imin) >> 1); ... }
RECURSIVE bisection(_, _, _, _)
bisection(key, arr, imin, imax) ==
    IF imin < imax
    THEN LET imid == imin + ((imax - imin) \div 2)
         IN IF Ge(key, At(arr, imid)) THEN bisection(key, arr, imid + 1, imax)
            ELSE bisection(key, arr, imin, imid)
    ELSE imin - 1

\* the index j with arr[j] <= key < arr[j+1]; -1 below the table, len above
binary_search_with_guess(key, arr, len, guess0) ==
    IF Gt(key, At(arr, len - 1)) THEN len
    ELSE IF Lt(key, At(arr, 0)) THEN -1
    ELSE IF len <= 4 THEN linear_search(key, arr, len, 1)
    ELSE
      LET g1 == IF guess0 > len - 3 THEN len - 3 ELSE guess0
          guess == IF g1 < 1 THEN 1 ELSE g1
      IN IF Lt(key, At(arr, guess))
         THEN IF Lt(key, At(arr, guess - 1))
              THEN bisection(key, arr,
                             IF guess > 8 /\ Ge(key, At(arr, guess - 8))
                             THEN guess - 8 ELSE 0,
                             guess - 1)
              ELSE guess - 1
         ELSE IF Lt(key, At(arr, guess + 1)) THEN guess
         ELSE IF Lt(key, At(arr, guess + 2)) THEN guess + 1
         ELSE bisection(key, arr, guess + 2,
                        IF guess < len - 8 - 1 /\ Lt(key, At(arr, guess + 8))
                        THEN guess + 8 ELSE len)

\* np.interp with the default left = fp[0] and right = fp[-1]; xp is not
\* checked to be increasing
interp(x, xp, fp) ==
    LET lenxp == Len(xp)
        lval == At(fp, 0)
        rval == At(fp, lenxp - 1)
    IN IF lenxp = 1
       THEN IF Lt(x, At(xp, 0)) THEN lval
            ELSE IF Gt(x, At(xp, 0)) THEN rval
            ELSE At(fp, 0)
       ELSE IF IsNaN(x) THEN x
       ELSE
         LET j == binary_search_with_guess(x, xp, lenxp, 0)
         IN IF j = -1 THEN lval
            ELSE IF j = lenxp THEN rval
            ELSE IF j = lenxp - 1 THEN At(fp, j)
            ELSE IF Eq(At(xp, j), x) THEN At(fp, j)
            ELSE
              LET slope == Div(Sub(At(fp, j + 1), At(fp, j)),
                               Sub(At(xp, j + 1), At(xp, j)))
                  r1 == Add(Mul(slope, Sub(x, At(xp, j))), At(fp, j))
                  r2 == Add(Mul(slope, Sub(x, At(xp, j + 1))), At(fp, j + 1))
              IN IF ~IsNaN(r1) THEN r1
                 ELSE IF ~IsNaN(r2) THEN r2
                 ELSE IF Eq(At(fp, j), At(fp, j + 1)) THEN At(fp, j)
                 ELSE r2

----------------------------------------------------------------------------
(* The solvers *)

\* an accumulator that is the stored series instead of a new array
StoredAccumulator(o) == o.shear_torque

\* c = np.zeros(self.number_mesures): the accumulator of one solve
accumulator(o) == zeros(o.number_mesures)

\* the closed form stored in c[1]
bootstrap(o) ==
    Div(Mul(Mul(Mul(Float(4), o.length_side_pf), At(o.force, 1)),
            sin(Div(At(o.inter_fiber_angle, 1), Float(2)))),
        Sub(Mul(Float(4), o.sheared_area), o.semi_sheared_area))

\* the value stored in c[i], given the interpolated semi_torque
recurrence_term(o, i, semi_torque) ==
    Mul(Div(Float(1), o.semi_sheared_area),
        Sub(Mul(Mul(o.length_side_pf, At(o.force, i)),
                sin(Div(At(o.inter_fiber_angle, i), Float(2)))),
            Mul(Mul(Num(500), o.semi_sheared_area), semi_torque)))

\* a loop that starts at the bootstrap index and so overwrites c[1]
LoopStartAtBootstrap == 2 - 1

\* the first index of the loop: range(2, self.number_mesures)
LoopStart == 2

\* the loop from index i on, over the accumulator c
RECURSIVE recurrence(_, _, _)
recurrence(o, c, i) ==
    IF i >= o.number_mesures THEN c
    ELSE LET semi_angle == Div(At(o.shear_angle, i), Float(2))
             semi_torque == interp(semi_angle, o.shear_angle, c)
         IN recurrence(o,
                       [c EXCEPT ![i + 1] = recurrence_term(o, i, semi_torque)],
                       i + 1)

\* calculate_shear_torque with the bootstrap skipped, instead of raised on,
\* when there is no index 1
calculate_shear_torque_guarded(o) ==
    LET c1 == IF o.number_mesures < 2 THEN accumulator(o)
              ELSE [accumulator(o) EXCEPT ![2] = bootstrap(o)]
    IN Outcome([o EXCEPT !.shear_torque = recurrence(o, c1, LoopStart),
                         !.shear_torque_computed = TRUE],
               "none", <<"A">>)

\* BiasTest.calculate_shear_torque (Mode A).  force[1] raises IndexError
\* when there are fewer than 2 samples, before anything is stored.
calculate_shear_torque(o) ==
    IF o.number_mesures < 2 THEN Outcome(o, "IndexError", <<"A">>)
    ELSE LET c1 == [accumulator(o) EXCEPT ![2] = bootstrap(o)]
             c == recurrence(o, c1, LoopStart)
         IN Outcome([o EXCEPT !.shear_torque = c,
                              !.shear_torque_computed = TRUE],
                    "none", <<"A">>)

\* BiasTest.calculate_shear_torque_2 (Mode B), vectorized
calculate_shear_torque_2(o) ==
    LET H == o.length
        W == o.width
        t(k) == LET half == Div(o.shear_angle[k], Float(2))
                IN Div(Mul(Mul(Sub(Div(H, W), Float(1)), o.force[k]),
                           Sub(cos(half), sin(half))),
                       Sub(Mul(Float(2), H), Mul(Float(3), W)))
    IN Outcome([o EXCEPT !.shear_torque = [k \in 1..o.number_mesures |-> t(k)],
                         !.shear_torque_computed = TRUE],
               "none", <<"B">>)

\* calculate_shear_force with Mode B as the lazily run solver
calculate_shear_force_lazy_2(o) ==
    LET r == IF ~o.shear_torque_computed THEN calculate_shear_torque_2(o)
             ELSE Outcome(o, "none", <<>>)
    IN Outcome([r.self EXCEPT
                   !.shear_force =
                       [k \in 1..o.number_mesures |->
                           Div(r.self.shear_torque[k], cos(o.shear_angle[k]))],
                   !.shear_force_computed = TRUE],
               "none", r.ran)

\* BiasTest.calculate_shear_force
calculate_shear_force(o) ==
    LET r == IF ~o.shear_torque_computed THEN calculate_shear_torque(o)
             ELSE Outcome(o, "none", <<>>)
    IN IF r.raised # "none" THEN r
       ELSE Outcome([r.self EXCEPT
                        !.shear_force =
                            [k \in 1..o.number_mesures |->
                                Div(r.self.shear_torque[k], cos(o.shear_angle[k]))],
                        !.shear_force_computed = TRUE],
                    "none", r.ran)

\* BiasTest.plot_angle_displacement, plot_force_displacement: drawing only
plot_angle_displacement(o) == Outcome(o, "none", <<>>)
plot_force_displacement(o) == Outcome(o, "none", <<>>)

\* BiasTest.plot_torque_angle
plot_torque_angle(o) ==
    IF ~o.shear_torque_computed THEN calculate_shear_torque(o)
    ELSE Outcome(o, "none", <<>>)

\* BiasTest.plot_shear_force_angle
plot_shear_force_angle(o) ==
    IF ~o.shear_force_computed THEN calculate_shear_force(o)
    ELSE Outcome(o, "none", <<>>)

----------------------------------------------------------------------------
(* The state machine: one constructor call, then any method calls *)

Init ==
    /\ status = "new"
    /\ args = [width |-> 0, length |-> 0, thickness |-> 0]
    /\ self = NoObject
    /\ err = "none"
    /\ lastCall = "none"
    /\ ran = <<>>

Construct ==
    /\ status = "new"
    /\ \E displacement \in SeqsUpTo(Displacements, MaxN),
          force \in SeqsUpTo(Forces, MaxN),
          g \in Geometries :
          LET width == g[1]
              length == g[2]
              thickness == g[3]
              r == init(displacement, force, width, length, thickness)
          IN /\ status' = IF r.raised = "none" THEN "constructed" ELSE "failed"
             /\ args' = [width |-> width, length |-> length,
                         thickness |-> thickness]
             /\ self' = r.self
             /\ err' = r.raised
             /\ ran' = r.ran
             /\ lastCall' = "__init__"

\* the caller invokes method `name`, whose outcome on the object is r
Called(name, r) ==
    /\ status = "constructed"
    /\ self' = r.self
    /\ err' = r.raised
    /\ ran' = r.ran
    /\ lastCall' = name
    /\ UNCHANGED <<status, args>>

CalculateShearTorque == Called("calculate_shear_torque", calculate_shear_torque(self))
CalculateShearTorque2 == Called("calculate_shear_torque_2", calculate_shear_torque_2(self))
CalculateShearForce == Called("calculate_shear_force", calculate_shear_force(self))
PlotAngleDisplacement == Called("plot_angle_displacement", plot_angle_displacement(self))
PlotForceDisplacement == Called("plot_force_displacement", plot_force_displacement(self))
PlotTorqueAngle == Called("plot_torque_angle", plot_torque_angle(self))
PlotShearForceAngle == Called("plot_shear_force_angle", plot_shear_force_angle(self))

Next ==
    \/ Construct
    \/ CalculateShearTorque
    \/ CalculateShearTorque2
    \/ CalculateShearForce
    \/ PlotAngleDisplacement
    \/ PlotForceDisplacement
    \/ PlotTorqueAngle
    \/ PlotShearForceAngle

Spec == Init /\ [][Next]_vars

----------------------------------------------------------------------------
(* Helpers of the properties *)

Range(s) == {s[k] : k \in DOMAIN s}

Constructed == status = "constructed"

\* the derived series as the constructor leaves them (lines 83-86)
Fresh(o) ==
    [o EXCEPT !.shear_torque = zeros(o.number_mesures),
              !.shear_torque_computed = FALSE,
              !.shear_force = zeros(o.number_mesures),
              !.shear_force_computed = FALSE]

\* the constructor's arguments are a specimen of positive width, length and
\* thickness
PositiveSpecimen == args.width > 0 /\ args.length > 0 /\ args.thickness > 0

\* the stored torque is the result of a Mode A solve
StoredModeA == Constructed /\ ran = <<"A">> /\ err = "none"

\* shear_angle holds no NaN and increases strictly with the index
AnglesIncreasing(o) ==
    /\ \A k \in 1..o.number_mesures : ~IsNaN(o.shear_angle[k])
    /\ \A k \in 1..(o.number_mesures - 1) :
          o.shear_angle[k].v < o.shear_angle[k + 1].v

\* the interpolation of shear_angle[i] / 2 over the points of index < i only
PrefixSemiTorque(o, c, i) ==
    interp(Div(At(o.shear_angle, i), Float(2)),
           SubSeq(o.shear_angle, 1, i), SubSeq(c, 1, i))

\* shear_torque[k] / cos(shear_angle[k]) for every k
ForceOfStoredTorque(o) ==
    [k \in 1..o.number_mesures |->
        Div(o.shear_torque[k], cos(o.shear_angle[k]))]

----------------------------------------------------------------------------
(* C1 *)

\* C1: after a Mode A solve, for every index i in 2..N-1,
\* c[i] = (1/a) * (L*F[i]*sin(theta_f[i]/2) - 0.5*a*s_i) with s_i interpolated
\* over the points of index < i only (nearest endpoint outside their range),
\* so that entries of index >= i do not influence c[i].  Stated here for the
\* specimens of positive dimensions whose shear angles increase strictly
\* with the index, the precondition the solver assumes.
C1_PrefixInterpolation ==
    (StoredModeA /\ PositiveSpecimen /\ AnglesIncreasing(self)) =>
        \A i \in 2..(self.number_mesures - 1) :
            At(self.shear_torque, i) =
                recurrence_term(self, i,
                                PrefixSemiTorque(self, self.shear_torque, i))

----------------------------------------------------------------------------
(* C2 *)

\* the call of this step reaches the lazy torque dependency
ReachesLazyTorque ==
    \/ lastCall' \in {"calculate_shear_force", "plot_torque_angle"}
    \/ lastCall' = "plot_shear_force_angle" /\ ~self.shear_force_computed

\* C2: a call of calculate_shear_force or plot_torque_angle (or of
\* plot_shear_force_angle while the force is not computed) on an object whose
\* torque is not computed runs the Mode A solver and no other, and stores its
\* result; on an object whose torque is computed it runs no solver and keeps
\* the stored torque; Mode B runs only in a call of calculate_shear_torque_2.
C2_LazyDependencyIsModeA ==
    [][Constructed =>
        /\ ReachesLazyTorque =>
              IF ~self.shear_torque_computed
              THEN /\ ran' = <<"A">>
                   /\ err' = "none" =>
                         /\ self'.shear_torque_computed
                         /\ self'.shear_torque =
                                calculate_shear_torque(Fresh(self)).self.shear_torque
              ELSE /\ ran' = <<>>
                   /\ self'.shear_torque = self.shear_torque
                   /\ self'.shear_torque_computed
        /\ "B" \in Range(ran') => lastCall' = "calculate_shear_torque_2"]_vars

\* calculate_shear_force ran Mode A lazily and derived the force from it
C2_Witness ==
    /\ Constructed
    /\ lastCall = "calculate_shear_force"
    /\ ran = <<"A">>
    /\ err = "none"
    /\ self.shear_force_computed
    /\ \E k \in 1..self.number_mesures : self.shear_torque[k] # Num(0)

----------------------------------------------------------------------------
(* C3 *)

\* length / width >= 2.0 of the constructor's arguments
RatioAtLeast2(length, width) ==
    \/ width > 0 /\ length >= 2 * width
    \/ width < 0 /\ length <= 2 * width

\* C3: a constructor call with length/width < 2.0 fails with ValueError and
\* yields no object; every constructed object has length/width >= 2.0, for
\* its arguments and for its stored length and width.
C3_RatioEnforced ==
    status # "new" =>
        /\ (args.width # 0 /\ ~RatioAtLeast2(args.length, args.width)) =>
              (status = "failed" /\ err = "ValueError" /\ self = NoObject)
        /\ Constructed =>
              /\ RatioAtLeast2(args.length, args.width)
              /\ Ge(Div(self.length, self.width), Float(2))

\* a constructor call with ratio 1.5 was refused
C3_Witness ==
    /\ status = "failed"
    /\ err = "ValueError"
    /\ args.width = 2
    /\ args.length = 3

----------------------------------------------------------------------------
(* C4 *)

\* the call of this step starts a Mode A solve
StartsModeA ==
    \/ lastCall' = "calculate_shear_torque"
    \/ lastCall' = "calculate_shear_force" /\ ~self.shear_torque_computed

\* C4: with fewer than 2 samples a Mode A solve, called directly or reached
\* through calculate_shear_force, raises and changes none of shear_torque,
\* shear_torque_computed, shear_force, shear_force_computed.
C4_AllOrNothing ==
    [][(Constructed /\ self.number_mesures < 2 /\ StartsModeA) =>
          /\ err' = "IndexError"
          /\ self'.shear_torque = self.shear_torque
          /\ self'.shear_torque_computed = self.shear_torque_computed
          /\ self'.shear_force = self.shear_force
          /\ self'.shear_force_computed = self.shear_force_computed]_vars

\* calculate_shear_force on a one-sample object raised and left the torque
\* and the force not computed
C4_Witness ==
    /\ Constructed
    /\ self.number_mesures = 1
    /\ lastCall = "calculate_shear_force"
    /\ err = "IndexError"
    /\ ~self.shear_torque_computed
    /\ ~self.shear_force_computed

----------------------------------------------------------------------------
(* C5 *)

\* C5: no call takes shear_torque_computed or shear_force_computed from True
\* back to False, and the torque a successful solver call stores is the one
\* that solver yields on the freshly constructed object, whatever torque was
\* stored before the call.
C5_LifecycleAndFreshSolve ==
    [][Constructed =>
        /\ self.shear_torque_computed => self'.shear_torque_computed
        /\ self.shear_force_computed => self'.shear_force_computed
        /\ (lastCall' = "calculate_shear_torque" /\ err' = "none") =>
              self'.shear_torque =
                  calculate_shear_torque(Fresh(self)).self.shear_torque
        /\ lastCall' = "calculate_shear_torque_2" =>
              self'.shear_torque =
                  calculate_shear_torque_2(Fresh(self)).self.shear_torque]_vars

\* Mode A was solved again over a torque another solve had stored: the force
\* still stored was derived from a different torque
C5_Witness ==
    /\ Constructed
    /\ lastCall = "calculate_shear_torque"
    /\ err = "none"
    /\ self.shear_force_computed
    /\ self.shear_force # ForceOfStoredTorque(self)
    /\ At(self.force, 0) # Num(0)

----------------------------------------------------------------------------
(* C6 *)

\* C6: a constructor call with a non-positive width, length or thickness
\* fails, whatever the other two values are.
C6_NonPositiveRejected ==
    (status # "new"
        /\ (args.width <= 0 \/ args.length <= 0 \/ args.thickness <= 0))
    => status = "failed"

----------------------------------------------------------------------------
(* C7 *)

\* C7: no constructed object holds an undefined (NaN) inter_fiber_angle or
\* shear_angle entry: an arccos argument outside [-1, 1] makes the
\* constructor raise.  Stated here for the specimens of positive dimensions.
C7_NoUndefinedAngle ==
    (Constructed /\ PositiveSpecimen) =>
        \A k \in 1..self.number_mesures :
            ~IsNaN(self.inter_fiber_angle[k]) /\ ~IsNaN(self.shear_angle[k])

----------------------------------------------------------------------------
(* C8 *)

\* C8: calculate_shear_force on an object with shear_angle[i] = pi/2 for some
\* i raises, and is not left with the force series marked computed.  Stated
\* here for the specimens of positive dimensions.
C8_SingularityRaised ==
    (Constructed /\ PositiveSpecimen /\ lastCall = "calculate_shear_force"
        /\ \E k \in 1..self.number_mesures : self.shear_angle[k] = HalfPi)
    => (err # "none" /\ ~self.shear_force_computed)

----------------------------------------------------------------------------
(* C9 *)

\* C9: after a successful Mode A solve c[0] = 0 and
\* c[1] = 4*L*F[1]*sin(theta_f[1]/2) / (4*A - a), a value of sample 1 and the
\* geometry alone.
C9_Bootstrap ==
    StoredModeA =>
        /\ self.number_mesures >= 2
        /\ At(self.shear_torque, 0) = Num(0)
        /\ At(self.shear_torque, 1) =
              Div(Mul(Mul(Mul(Float(4), self.length_side_pf), At(self.force, 1)),
                      sin(Div(At(self.inter_fiber_angle, 1), Float(2)))),
                  Sub(Mul(Float(4), self.sheared_area), self.semi_sheared_area))

\* a Mode A solve over three samples with F[0] # 0 stored a nonzero c[1] and
\* a nonzero c[2]
C9_Witness ==
    /\ StoredModeA
    /\ self.number_mesures >= 3
    /\ At(self.force, 0) # Num(0)
    /\ ~IsNaN(At(self.shear_torque, 1)) /\ At(self.shear_torque, 1) # Num(0)
    /\ ~IsNaN(At(self.shear_torque, 2)) /\ At(self.shear_torque, 2) # Num(0)

----------------------------------------------------------------------------
(* C10 *)

\* C10: whenever shear_force_computed is True, the stored shear_force is the
\* one derived from the stored shear_torque:
\* shear_force[i] = shear_torque[i] / cos(shear_angle[i]) for every i.
\* Stated here for the specimens of positive dimensions.
C10_ForceNeverStale ==
    (Constructed /\ PositiveSpecimen /\ self.shear_force_computed) =>
        self.shear_force = ForceOfStoredTorque(self)

====
